---- MODULE Spec2Model ----
(***************************************************************************)
(* Model of dbms/include/DB/Functions/FunctionsArithmetic.h: the binary    *)
(* and unary arithmetic functions (getReturnType, execute), the block      *)
(* kernels, the scalar operations and the divide/modulo-by-constant        *)
(* specializations.                                                        *)
(*                                                                         *)
(* Integers of the model are two's-complement values of Bits(T) bits,      *)
(* where Bits(T) = sizeof(T) * ByteBits.  TLC's integers are 32 bits wide, *)
(* so the byte is scaled down (ByteBits bits instead of 8); sizeof, the    *)
(* promotion lattice, signedness and every wrap-around are as in C++.      *)
(* Floating values are exact rationals <<n, d>> (d = 0: infinity or NaN).  *)
(***************************************************************************)
EXTENDS Integers, Sequences, FiniteSets, TLC

\* Bits in one byte of the model (8 in the build).
ByteBits == 2
\* Largest row count of a block in the dispatch specification.
MaxRows == 2
\* Largest row count of a block in the division specification.
MaxLen == 2
\* Largest row count of a block in the divide-by-constant specification.
MaxSseRows == 4

(***************************************************************************)
(* Scalar types (UInt8 .. Float64), their size, signedness, floatness.     *)
(***************************************************************************)
IntegerScalars == {"UInt8", "UInt16", "UInt32", "UInt64", "Int8", "Int16", "Int32", "Int64"}
FloatScalars == {"Float32", "Float64"}
Scalars == IntegerScalars \cup FloatScalars

SizeOf(T) ==
    CASE T \in {"UInt8", "Int8"} -> 1
      [] T \in {"UInt16", "Int16"} -> 2
      [] T \in {"UInt32", "Int32", "Float32"} -> 4
      [] T \in {"UInt64", "Int64", "Float64"} -> 8

\* std::is_signed<T>::value (true for the floating types as well)
is_signed(T) == T \in {"Int8", "Int16", "Int32", "Int64", "Float32", "Float64"}

is_floating_point(T) == T \in FloatScalars

\* The integer scalar of the given signedness and size in bytes.
IntegerOf(signed, size) ==
    CASE size = 1 -> IF signed THEN "Int8" ELSE "UInt8"
      [] size = 2 -> IF signed THEN "Int16" ELSE "UInt16"
      [] size = 4 -> IF signed THEN "Int32" ELSE "UInt32"
      [] OTHER -> IF signed THEN "Int64" ELSE "UInt64"

Max2(x, y) == IF x >= y THEN x ELSE y
Min2(x, y) == IF x <= y THEN x ELSE y

Pow2(n) == 2 ^ n

Bits(T) == SizeOf(T) * ByteBits

\* std::numeric_limits<T>::min() and max() of an integer scalar
numeric_limits_min(T) == IF is_signed(T) THEN 0 - Pow2(Bits(T) - 1) ELSE 0
numeric_limits_max(T) == IF is_signed(T) THEN Pow2(Bits(T) - 1) - 1 ELSE Pow2(Bits(T)) - 1

(***************************************************************************)
(* NumberTraits (DB/Functions/NumberTraits.h): the promotion lattice.      *)
(***************************************************************************)
\* Integer projection of a scalar: an integer type is itself, a floating
\* type the signed integer of its width.
ToInteger(T) == IF is_floating_point(T) THEN IntegerOf(TRUE, SizeOf(T)) ELSE T

\* One widening step, capped at 64 bits.
NextSize(size) == Min2(8, 2 * size)

ResultOfAdditionMultiplication(A, B) ==
    IF is_floating_point(A) \/ is_floating_point(B)
    THEN "Float64"
    ELSE IntegerOf(is_signed(A) \/ is_signed(B), NextSize(Max2(SizeOf(A), SizeOf(B))))

ResultOfSubtraction(A, B) ==
    IF is_floating_point(A) \/ is_floating_point(B)
    THEN "Float64"
    ELSE IntegerOf(TRUE, NextSize(Max2(SizeOf(A), SizeOf(B))))

ResultOfFloatingPointDivision(A, B) ==
    IF A = "Float64" \/ B = "Float64" \/ SizeOf(A) > 4 \/ SizeOf(B) > 4
    THEN "Float64"
    ELSE "Float32"

ResultOfIntegerDivision(A, B) ==
    IF is_floating_point(A) \/ is_floating_point(B)
    THEN IF SizeOf(A) >= SizeOf(B) THEN ToInteger(A) ELSE ToInteger(B)
    ELSE IntegerOf(is_signed(A) \/ is_signed(B), NextSize(Max2(SizeOf(A), SizeOf(B))))

ResultOfModulo(A, B) == ToInteger(A)

\* The callers instantiate ColumnVector<ResultType> and static_cast<Result>
\* with this type for every numeric pair, floating operands included, so it
\* is a scalar for every pair.
ResultOfBit(A, B) ==
    IntegerOf(is_signed(A) \/ is_signed(B), Max2(SizeOf(A), SizeOf(B)))

ResultOfNegate(A) ==
    IF is_floating_point(A) THEN "Float64" ELSE IntegerOf(TRUE, NextSize(SizeOf(A)))

ResultOfBitNot(A) == ToInteger(A)

(***************************************************************************)
(* The functions of the file and the operation each is instantiated with.  *)
(***************************************************************************)
BinaryFunctions == {"plus", "minus", "multiply", "divide", "intDiv", "modulo",
                    "bitAnd", "bitOr", "bitXor", "bitShiftLeft", "bitShiftRight"}
UnaryFunctions == {"negate", "bitNot"}

\* Op<A, B>::ResultType of the binary operations
BinaryResultType(fn, A, B) ==
    CASE fn \in {"plus", "multiply"} -> ResultOfAdditionMultiplication(A, B)
      [] fn = "minus" -> ResultOfSubtraction(A, B)
      [] fn = "divide" -> ResultOfFloatingPointDivision(A, B)
      [] fn = "intDiv" -> ResultOfIntegerDivision(A, B)
      [] fn = "modulo" -> ResultOfModulo(A, B)
      [] OTHER -> ResultOfBit(A, B)

\* Op<A>::ResultType of the unary operations
UnaryResultType(fn, A) ==
    IF fn = "negate" THEN ResultOfNegate(A) ELSE ResultOfBitNot(A)

(***************************************************************************)
(* Declared (data) types.  A numeric data type has the name of its scalar. *)
(***************************************************************************)
DataTypes == {"Date", "DateTime"} \cup Scalars
InvalidType == "InvalidType"

\* DataType::FieldType
FieldType(D) ==
    CASE D = "Date" -> "UInt16"
      [] D = "DateTime" -> "UInt32"
      [] OTHER -> D

\* DataTypeFromFieldType<T>::Type
DataTypeFromFieldType(T) == T

IsIntegral(D) == D \in IntegerScalars
IsFloating(D) == D \in FloatScalars
IsNumeric(D) == IsIntegral(D) \/ IsFloating(D)
IsDateOrDateTime(D) == D \in {"Date", "DateTime"}

\* DateBinaryOperationTraits with minus accepting a date on either side, the
\* way plus does.
DateBinaryOperationTraits_MinusEitherSide(fn, L, R) ==
    IF fn = "plus" \/ fn = "minus"
    THEN IF IsDateOrDateTime(L) /\ IsIntegral(R)
         THEN L
         ELSE IF IsIntegral(L) /\ IsDateOrDateTime(R)
              THEN R
              ELSE IF fn = "minus" /\ IsDateOrDateTime(L) /\ L = R
                   THEN "Int32"
                   ELSE InvalidType
    ELSE InvalidType

\* DateBinaryOperationTraits with plus accepting a date on the left only, the
\* way minus does.
DateBinaryOperationTraits_PlusDateOnLeft(fn, L, R) ==
    IF fn = "plus" \/ fn = "minus"
    THEN IF IsDateOrDateTime(L)
         THEN IF fn = "minus" /\ L = R
              THEN "Int32"
              ELSE IF IsIntegral(R) THEN L ELSE InvalidType
         ELSE InvalidType
    ELSE InvalidType

DateBinaryOperationTraits(fn, L, R) ==
    IF fn = "plus"
    THEN IF IsDateOrDateTime(L) /\ IsIntegral(R)
         THEN L
         ELSE IF IsIntegral(L) /\ IsDateOrDateTime(R) THEN R ELSE InvalidType
    ELSE IF fn = "minus"
         THEN IF IsDateOrDateTime(L)
              THEN IF L = R
                   THEN "Int32"
                   ELSE IF IsIntegral(R) THEN L ELSE InvalidType
              ELSE InvalidType
         ELSE InvalidType

BinaryOperationTraits(fn, L, R) ==
    IF IsDateOrDateTime(L) \/ IsDateOrDateTime(R)
    THEN DateBinaryOperationTraits(fn, L, R)
    ELSE DataTypeFromFieldType(BinaryResultType(fn, FieldType(L), FieldType(R)))

\* The candidate lists the dispatchers walk, in the order of the source.
BinaryCandidates == <<"Date", "DateTime", "UInt8", "UInt16", "UInt32", "UInt64",
                      "Int8", "Int16", "Int32", "Int64", "Float32", "Float64">>
UnaryCandidates == <<"UInt8", "UInt16", "UInt32", "UInt64",
                     "Int8", "Int16", "Int32", "Int64", "Float32", "Float64">>

\* typeid_cast<const T *>(p): an exact match of the dynamic type
typeid_cast(T, actual) == T = actual

\* A chain  f(c1) || f(c2) || ...  over a candidate list: the outcome of the
\* first candidate whose outcome is not "false", or "false".
FirstHit(hits) == CHOOSE p \in hits : \A q \in hits : p[1] <= q[1]
OrElse(hits) == IF hits = {} THEN [status |-> "false"] ELSE FirstHit(hits)[2]
FirstOf(outcomes, i, n) ==
    OrElse({p \in {<<j, outcomes[j]>> : j \in i..n} : p[2].status # "false"})

(***************************************************************************)
(* FunctionBinaryArithmetic::getReturnType                                 *)
(***************************************************************************)
checkRightTypeImpl(ResultDataType) ==
    IF ResultDataType = InvalidType
    THEN [status |-> "false"]
    ELSE [status |-> "true", type_res |-> ResultDataType]

checkRightType(fn, L, R, arguments) ==
    IF typeid_cast(R, arguments[2])
    THEN checkRightTypeImpl(BinaryOperationTraits(fn, L, R))
    ELSE [status |-> "false"]

checkLeftType(fn, T0, arguments) ==
    IF typeid_cast(T0, arguments[1])
    THEN LET r == FirstOf([i \in 1..Len(BinaryCandidates) |->
                              checkRightType(fn, T0, BinaryCandidates[i], arguments)],
                          1, Len(BinaryCandidates))
         IN  IF r.status = "true" THEN r
             ELSE [status |-> "ILLEGAL_TYPE_OF_ARGUMENT"]
    ELSE [status |-> "false"]

getReturnType(fn, arguments) ==
    IF Len(arguments) # 2
    THEN [status |-> "NUMBER_OF_ARGUMENTS_DOESNT_MATCH"]
    ELSE LET r == FirstOf([i \in 1..Len(BinaryCandidates) |->
                              checkLeftType(fn, BinaryCandidates[i], arguments)],
                          1, Len(BinaryCandidates))
         IN  IF r.status = "false" THEN [status |-> "ILLEGAL_TYPE_OF_ARGUMENT"] ELSE r

(***************************************************************************)
(* FunctionUnaryArithmetic::getReturnType                                  *)
(***************************************************************************)
checkType(fn, T0, arguments) ==
    IF typeid_cast(T0, arguments[1])
    THEN [status |-> "true",
          type_res |-> DataTypeFromFieldType(UnaryResultType(fn, FieldType(T0)))]
    ELSE [status |-> "false"]

unaryGetReturnType(fn, arguments) ==
    IF Len(arguments) # 1
    THEN [status |-> "NUMBER_OF_ARGUMENTS_DOESNT_MATCH"]
    ELSE LET r == FirstOf([i \in 1..Len(UnaryCandidates) |->
                              checkType(fn, UnaryCandidates[i], arguments)],
                          1, Len(UnaryCandidates))
         IN  IF r.status = "false" THEN [status |-> "ILLEGAL_TYPE_OF_ARGUMENT"] ELSE r

(***************************************************************************)
(* Values.  An integer scalar holds an integer of its range; a floating    *)
(* scalar holds a rational <<n, d>> in lowest terms with d >= 0, where     *)
(* <<1, 0>> and <<-1, 0>> are the infinities and <<0, 0>> is NaN.          *)
(***************************************************************************)
Abs(x) == IF x < 0 THEN 0 - x ELSE x
Sign(x) == IF x < 0 THEN 0 - 1 ELSE IF x > 0 THEN 1 ELSE 0

RECURSIVE Gcd(_, _)
Gcd(x, y) == IF y = 0 THEN x ELSE Gcd(y, x % y)

Rat(n, d) ==
    IF d = 0 THEN <<Sign(n), 0>>
    ELSE LET g == Gcd(Abs(n), Abs(d)) IN <<Sign(d) * (n \div g), Abs(d) \div g>>

\* C++ integer division and remainder truncate towards zero.
TruncDiv(x, y) == Sign(x) * Sign(y) * (Abs(x) \div Abs(y))
TruncRem(x, y) == x - TruncDiv(x, y) * y

\* The value of the integer scalar T congruent to x modulo 2^Bits(T).
Wrap(T, x) ==
    LET m == Pow2(Bits(T))
        u == x % m
    IN  IF is_signed(T) /\ u >= m \div 2 THEN u - m ELSE u

\* x * y modulo m, for 0 <= x, y < m, computed six bits of y at a time so
\* that no intermediate value exceeds 64 * m.
RECURSIVE MulMod(_, _, _)
MulMod(x, y, m) ==
    IF y = 0 THEN 0
    ELSE (((64 * MulMod(x, y \div 64, m)) % m) + ((x * (y % 64)) % m)) % m

\* x * y in the integer scalar T (wrapping).
MulWrap(T, x, y) ==
    LET m == Pow2(Bits(T)) IN Wrap(T, MulMod(x % m, y % m, m))

\* Bitwise operations on the low n bits of x and y (both in 0 .. 2^n - 1).
RECURSIVE BitAnd(_, _, _)
BitAnd(x, y, n) ==
    IF n = 0 THEN 0
    ELSE 2 * BitAnd(x \div 2, y \div 2, n - 1) + (IF x % 2 = 1 /\ y % 2 = 1 THEN 1 ELSE 0)

RECURSIVE BitOr(_, _, _)
BitOr(x, y, n) ==
    IF n = 0 THEN 0
    ELSE 2 * BitOr(x \div 2, y \div 2, n - 1) + (IF x % 2 = 1 \/ y % 2 = 1 THEN 1 ELSE 0)

RECURSIVE BitXor(_, _, _)
BitXor(x, y, n) ==
    IF n = 0 THEN 0
    ELSE 2 * BitXor(x \div 2, y \div 2, n - 1) + (IF x % 2 # y % 2 THEN 1 ELSE 0)

\* static_cast<R>(v) of a value v of scalar S.  A floating value is
\* truncated towards zero; infinity and NaN give the x86 "integer
\* indefinite" value, the minimum of R.
static_cast(S, R, v) ==
    IF is_floating_point(S)
    THEN IF is_floating_point(R) THEN v
         ELSE IF v[2] = 0 THEN numeric_limits_min(IntegerOf(TRUE, SizeOf(R)))
         ELSE Wrap(R, TruncDiv(v[1], v[2]))
    ELSE IF is_floating_point(R) THEN <<v, 1>> ELSE Wrap(R, v)

\* Integral promotion: a type narrower than int becomes int.
Promote(T) == IF ~is_floating_point(T) /\ SizeOf(T) < 4 THEN "Int32" ELSE T

\* The usual arithmetic conversions: the type in which  x op y  is computed.
CommonType(X, Y) ==
    IF is_floating_point(X) \/ is_floating_point(Y)
    THEN IF X = "Float64" \/ Y = "Float64" THEN "Float64" ELSE "Float32"
    ELSE LET px == Promote(X)
             py == Promote(Y)
         IN  IF is_signed(px) = is_signed(py)
             THEN IF SizeOf(px) >= SizeOf(py) THEN px ELSE py
             ELSE LET u == IF is_signed(px) THEN py ELSE px
                      s == IF is_signed(px) THEN px ELSE py
                  IN  IF SizeOf(u) >= SizeOf(s) THEN u ELSE s

\* v == k for a value v of scalar T and a small integer literal k
EqualsLiteral(T, v, k) == IF is_floating_point(T) THEN v = <<k, 1>> ELSE v = k

\* Floating arithmetic on rationals (rounding and the sign of zero are not
\* modelled).
FloatAdd(x, y) ==
    IF x[2] = 0 /\ y[2] = 0 THEN (IF x = y THEN x ELSE <<0, 0>>)
    ELSE Rat(x[1] * y[2] + y[1] * x[2], x[2] * y[2])
FloatNeg(x) == <<0 - x[1], x[2]>>
FloatMul(x, y) == Rat(x[1] * y[1], x[2] * y[2])
FloatDiv(x, y) ==
    IF y[1] < 0 THEN Rat(0 - (x[1] * y[2]), x[2] * (0 - y[1]))
    ELSE Rat(x[1] * y[2], x[2] * y[1])

(***************************************************************************)
(* Scalar operations.  apply returns [status, value]; status is "ok", or   *)
(* the exception thrown ("DivisionByZero" for "Division by zero",          *)
(* "DivisionOverflow" for "Division of minimal signed number by minus      *)
(* one"), or "SIGFPE" when the machine division itself traps.  junk is the *)
(* value an operation with undefined behaviour happens to produce.         *)
(***************************************************************************)
Ok(v) == [status |-> "ok", value |-> v]
Thrown(e) == [status |-> e, value |-> 0]

throwIfDivisionLeadsToFPE(A, B, a, b) ==
    IF EqualsLiteral(B, b, 0)
    THEN "DivisionByZero"
    ELSE IF is_signed(A) /\ is_signed(B)
            /\ ~is_floating_point(A) /\ a = numeric_limits_min(A)
            /\ EqualsLiteral(B, b, 0 - 1)
         THEN "DivisionOverflow"
         ELSE "ok"

\* x op y in the common type C, for the four arithmetic operators
Arith(fn, C, x, y) ==
    IF is_floating_point(C)
    THEN CASE fn = "plus" -> Ok(FloatAdd(x, y))
           [] fn = "minus" -> Ok(FloatAdd(x, FloatNeg(y)))
           [] fn = "multiply" -> Ok(FloatMul(x, y))
           [] OTHER -> Ok(FloatDiv(x, y))
    ELSE CASE fn = "plus" -> Ok(Wrap(C, x + y))
           [] fn = "minus" -> Ok(Wrap(C, x - y))
           [] fn = "multiply" -> Ok(MulWrap(C, x, y))
           [] OTHER -> IF is_signed(C) /\ x = numeric_limits_min(C) /\ y = 0 - 1
                       THEN Thrown("SIGFPE")
                       ELSE Ok(Wrap(C, TruncDiv(x, y)))

\* return: the value computed in C converted to the result type
Returned(C, Result, z) ==
    IF z.status = "ok" THEN Ok(static_cast(C, Result, z.value)) ELSE z

\* a op b computed in the common type of A and B, converted to Result on
\* return: apply without the static_cast of the left operand.
ArithApply_NoCast(fn, A, B, Result, a, b) ==
    Returned(CommonType(A, B), Result,
             Arith(fn, CommonType(A, B),
                   static_cast(A, CommonType(A, B), a),
                   static_cast(B, CommonType(A, B), b)))

\* static_cast<Result>(a) op b
ArithApply(fn, A, B, Result, a, b) ==
    Returned(CommonType(Result, B), Result,
             Arith(fn, CommonType(Result, B),
                   static_cast(Result, CommonType(Result, B), static_cast(A, Result, a)),
                   static_cast(B, CommonType(Result, B), b)))

DivideIntegralImpl_apply(A, B, Result, a, b) ==
    LET e == throwIfDivisionLeadsToFPE(A, B, a, b)
    IN  IF e # "ok" THEN Thrown(e) ELSE ArithApply("intDiv", A, B, Result, a, b)

ModuloImpl_apply(A, B, Result, a, b) ==
    LET TA == ToInteger(A)
        ta == static_cast(A, TA, a)
        tb == static_cast(B, TA, b)
        e == throwIfDivisionLeadsToFPE(TA, TA, ta, tb)
    IN  IF e # "ok" THEN Thrown(e)
        ELSE Ok(static_cast(Promote(TA), Result, TruncRem(ta, tb)))

\* static_cast<Result>(a) op static_cast<Result>(b) for the bit operations
BitApply(fn, A, B, Result, a, b, junk) ==
    LET P == Promote(Result)
        n == Bits(P)
        x == static_cast(A, Result, a)
        y == static_cast(B, Result, b)
        ux == x % Pow2(n)
        uy == y % Pow2(n)
    IN  CASE fn = "bitAnd" -> Ok(static_cast(P, Result, Wrap(P, BitAnd(ux, uy, n))))
          [] fn = "bitOr" -> Ok(static_cast(P, Result, Wrap(P, BitOr(ux, uy, n))))
          [] fn = "bitXor" -> Ok(static_cast(P, Result, Wrap(P, BitXor(ux, uy, n))))
          [] OTHER ->
               IF y < 0 \/ y >= n
               THEN Ok(junk)
               ELSE IF fn = "bitShiftLeft"
                    THEN Ok(static_cast(P, Result, MulWrap(P, x, Pow2(y))))
                    ELSE Ok(static_cast(P, Result, x \div Pow2(y)))

\* Op::template apply<Result>(a, b)
apply(fn, A, B, Result, a, b, junk) ==
    CASE fn \in {"plus", "minus", "multiply", "divide"} -> ArithApply(fn, A, B, Result, a, b)
      [] fn = "intDiv" -> DivideIntegralImpl_apply(A, B, Result, a, b)
      [] fn = "modulo" -> ModuloImpl_apply(A, B, Result, a, b)
      [] OTHER -> BitApply(fn, A, B, Result, a, b, junk)

NegateImpl_apply(A, a) ==
    LET R == ResultOfNegate(A)
        x == static_cast(A, R, a)
    IN  IF is_floating_point(R) THEN FloatNeg(x)
        ELSE static_cast(Promote(R), R, Wrap(Promote(R), 0 - x))

BitNotImpl_apply(A, a) ==
    LET R == ResultOfBitNot(A)
        x == static_cast(A, R, a)
    IN  static_cast(Promote(R), R, Wrap(Promote(R), 0 - x - 1))

\* Op::apply(a) of the unary operations
applyUnary(fn, A, a) ==
    IF fn = "negate" THEN NegateImpl_apply(A, a) ELSE BitNotImpl_apply(A, a)

(***************************************************************************)
(* Block kernels.  A kernel is given the fresh output buffer mem (its      *)
(* content is whatever the allocation left there) and returns              *)
(* [status, data, written]: the buffer when the kernel returned or threw,  *)
(* and the set of indices it stored to.                                    *)
(***************************************************************************)
SetMin(S) == CHOOSE x \in S : \A y \in S : x <= y

\* for (i = 0; i < size; ++i) c[i] = results[i];  stopping at the first throw
Loop(results, size, mem) ==
    LET bad == {i \in 1..size : results[i].status # "ok"}
        k == IF bad = {} THEN size + 1 ELSE SetMin(bad)
    IN  [status |-> IF bad = {} THEN "ok" ELSE results[k].status,
         data |-> [i \in 1..size |-> IF i < k THEN results[i].value ELSE mem[i]],
         written |-> 1..(k - 1)]

vector_vector(fn, A, B, Result, a, b, mem, junk) ==
    Loop([i \in 1..Len(a) |-> apply(fn, A, B, Result, a[i], b[i], junk)], Len(a), mem)

vector_constant(fn, A, B, Result, a, b, mem, junk) ==
    Loop([i \in 1..Len(a) |-> apply(fn, A, B, Result, a[i], b, junk)], Len(a), mem)

constant_vector(fn, A, B, Result, a, b, mem, junk) ==
    Loop([i \in 1..Len(b) |-> apply(fn, A, B, Result, a, b[i], junk)], Len(b), mem)

constant_constant(fn, A, B, Result, a, b, junk) == apply(fn, A, B, Result, a, b, junk)

UnaryOperationImpl_vector(fn, A, a, mem) ==
    Loop([i \in 1..Len(a) |-> Ok(applyUnary(fn, A, a[i]))], Len(a), mem)

UnaryOperationImpl_constant(fn, A, a) == applyUnary(fn, A, a)

(***************************************************************************)
(* Division and modulo by a constant (libdivide).                          *)
(***************************************************************************)
\* libdivide::divider<A> divider(b): the constant is converted to A
divider(A, B, b) == static_cast(B, A, b)

\* a / divider; a divider built from 0 has no defined quotient
LibDivide(A, a, d, junk) ==
    IF d = 0 THEN Wrap(A, junk) ELSE Wrap(A, TruncDiv(a, d))

\* 16 / sizeof(A)
values_per_sse_register(A) == 16 \div SizeOf(A)

\* The output slot i (1-based) after the SSE phase over the first n_sse
\* elements: each _mm_storeu_si128 writes 16 bytes, that is 16 / sizeof(A)
\* quotients of sizeof(A) bytes each, at c_pos, and c_pos advances by
\* 16 / sizeof(A) slots of sizeof(Result) bytes.
SseCovered(A, Result, i) ==
    ((i - 1) % values_per_sse_register(A)) < 16 \div SizeOf(Result)

RECURSIVE PackLanes(_, _, _, _)
PackLanes(q, first, count, bits) ==
    IF count = 0 THEN 0
    ELSE (q[first] % Pow2(bits)) + Pow2(bits) * PackLanes(q, first + 1, count - 1, bits)

SseSlot(A, Result, q, i) ==
    LET k == values_per_sse_register(A)
        g == (i - 1) \div k
        j == (i - 1) % k
        r == SizeOf(Result) \div SizeOf(A)
    IN  Wrap(Result, PackLanes(q, g * k + j * r + 1, r, Bits(A)))

DivideIntegralByConstantImpl_vector_constant(A, B, Result, a, b, mem, junk) ==
    LET size == Len(a) IN
    IF b = 0
    THEN [status |-> "DivisionByZero", data |-> mem, written |-> {}]
    ELSE IF is_signed(B) /\ b = 0 - 1
    THEN [status |-> "ok",
          data |-> [i \in 1..size |->
                       static_cast(Promote(Result), Result, Wrap(Promote(Result), 0 - mem[i]))],
          written |-> 1..size]
    ELSE LET d == divider(A, B, b)
             k == values_per_sse_register(A)
             n_sse == (size \div k) * k
             q == [i \in 1..size |-> LibDivide(A, a[i], d, junk)]
         IN  [status |-> "ok",
              data |-> [i \in 1..size |->
                           IF i > n_sse THEN static_cast(A, Result, q[i])
                           ELSE IF SseCovered(A, Result, i) THEN SseSlot(A, Result, q, i)
                           ELSE mem[i]],
              written |-> {i \in 1..size : i > n_sse \/ SseCovered(A, Result, i)}]

\* ModuloByConstantImpl::vector_constant without the check of b == 0.
ModuloByConstantImpl_vector_constant_NoZeroCheck(A, B, Result, a, b, mem, junk) ==
    LET size == Len(a) IN
    IF (is_signed(B) /\ b = 0 - 1) \/ b = 1
    THEN [status |-> "ok", data |-> [i \in 1..size |-> 0], written |-> 1..size]
    ELSE [status |-> "ok",
          data |-> [i \in 1..size |->
              static_cast(CommonType(A, CommonType(A, B)), Result,
                  Wrap(CommonType(A, CommonType(A, B)),
                       a[i] - MulWrap(CommonType(A, B),
                                      LibDivide(A, a[i], divider(A, B, b), junk), b)))],
          written |-> 1..size]

ModuloByConstantImpl_vector_constant(A, B, Result, a, b, mem, junk) ==
    LET size == Len(a) IN
    IF b = 0
    THEN [status |-> "DivisionByZero", data |-> mem, written |-> {}]
    ELSE IF (is_signed(B) /\ b = 0 - 1) \/ b = 1
    THEN [status |-> "ok", data |-> [i \in 1..size |-> 0], written |-> 1..size]
    ELSE LET d == divider(A, B, b)
             M == CommonType(A, B)
             CM == CommonType(A, M)
         IN  [status |-> "ok",
              data |-> [i \in 1..size |->
                  LET q == LibDivide(A, a[i], d, junk)
                      prod == MulWrap(M, static_cast(A, M, q), static_cast(B, M, b))
                  IN  static_cast(CM, Result,
                          Wrap(CM, static_cast(A, CM, a[i]) - static_cast(M, CM, prod)))],
              written |-> 1..size]

\* The specializations of BinaryOperationImpl for DivideIntegralImpl and
\* ModuloImpl.
HasSpecialization(fn, A, B) ==
    /\ fn \in {"intDiv", "modulo"}
    /\ \/ A \in {"UInt64", "UInt32"} /\ B \in {"UInt8", "UInt16", "UInt32", "UInt64"}
       \/ A \in {"Int64", "Int32"} /\ B \in {"Int8", "Int16", "Int32", "Int64"}

\* BinaryOperationImpl<A, B, Op<A, B>, ResultType>::vector_constant
BinaryOperationImpl_vector_constant(fn, A, B, Result, a, b, mem, junk) ==
    IF HasSpecialization(fn, A, B) /\ Result = BinaryResultType(fn, A, B)
    THEN IF fn = "intDiv"
         THEN DivideIntegralByConstantImpl_vector_constant(A, B, Result, a, b, mem, junk)
         ELSE ModuloByConstantImpl_vector_constant(A, B, Result, a, b, mem, junk)
    ELSE vector_constant(fn, A, B, Result, a, b, mem, junk)

(***************************************************************************)
(* Columns and blocks.  A column is [shape, scalar, size, data]: a         *)
(* ColumnVector<T> holds its elements in data, a ColumnConst<T> its single *)
(* value in data[1] and its logical length in size.  A block is a sequence *)
(* of [type, column]; the arguments come first, the result position last.  *)
(***************************************************************************)
ColumnVector(T, data) == [shape |-> "Vector", scalar |-> T, size |-> Len(data), data |-> data]
ColumnConst(T, s, v) == [shape |-> "Const", scalar |-> T, size |-> s, data |-> <<v>>]
NoColumn == [shape |-> "None", scalar |-> "None", size |-> 0, data |-> <<>>]

IsColumnVector(T, col) == col.shape = "Vector" /\ col.scalar = T
IsColumnConst(T, col) == col.shape = "Const" /\ col.scalar = T

\* The value found in memory that was never written, for a scalar T: one of
\* two sample bit patterns, chosen by the seed.
Uninitialized(T, seed) ==
    IF is_floating_point(T) THEN <<seed, 1>>
    ELSE IF seed = 0 THEN 0 ELSE numeric_limits_max(T)

\* vec_res.resize(n): n elements the allocation does not initialise
resize(T, n, seed) == [i \in 1..n |-> Uninitialized(T, seed)]

\* What a call did to the result position: assigned says whether
\* block.getByPosition(result).column was set, column to what.
Effect(st, col, w) == [status |-> st, assigned |-> TRUE, column |-> col, written |-> w]
NoEffect(st) == [status |-> st, assigned |-> FALSE, column |-> NoColumn, written |-> {}]

KernelStatus(st) == IF st = "ok" THEN "true" ELSE st

\* The result column is assigned before the kernel runs: it holds the output
\* buffer whether the kernel returned or threw.
VectorEffect(ResultType, k) ==
    Effect(KernelStatus(k.status), ColumnVector(ResultType, k.data), k.written)

\* The constant result column is created and assigned after the kernel.
ConstEffect(ResultType, size, k) ==
    IF k.status = "ok"
    THEN Effect("true", ColumnConst(ResultType, size, k.value), {1})
    ELSE NoEffect(k.status)

\* if (!(...)) throw Exception(..., e)
OrThrow(r, e) == IF r.status = "false" THEN NoEffect(e) ELSE r

ColumnKinds == <<"Vector", "Const">>

(***************************************************************************)
(* FunctionBinaryArithmetic::execute                                       *)
(***************************************************************************)
\* executeRightTypeImpl, the ColumnVector<T0> overload
executeRightTypeImpl_Vector(fn, T0, T1, ResultType, block, col_left, garbage) ==
    LET col_right == block[2].column
        mem == resize(ResultType, col_left.size, garbage)
        junk == Uninitialized(ResultType, garbage)
    IN  IF IsColumnVector(T1, col_right)
        THEN VectorEffect(ResultType,
                          vector_vector(fn, T0, T1, ResultType, col_left.data,
                                        col_right.data, mem, junk))
        ELSE IF IsColumnConst(T1, col_right)
        THEN VectorEffect(ResultType,
                          BinaryOperationImpl_vector_constant(fn, T0, T1, ResultType,
                              col_left.data, col_right.data[1], mem, junk))
        ELSE NoEffect("false")

\* executeRightTypeImpl, the ColumnConst<T0> overload
executeRightTypeImpl_Const(fn, T0, T1, ResultType, block, col_left, garbage) ==
    LET col_right == block[2].column
        mem == resize(ResultType, col_left.size, garbage)
        junk == Uninitialized(ResultType, garbage)
    IN  IF IsColumnVector(T1, col_right)
        THEN VectorEffect(ResultType,
                          constant_vector(fn, T0, T1, ResultType, col_left.data[1],
                                          col_right.data, mem, junk))
        ELSE IF IsColumnConst(T1, col_right)
        THEN ConstEffect(ResultType, col_left.size,
                         constant_constant(fn, T0, T1, ResultType, col_left.data[1],
                                           col_right.data[1], junk))
        ELSE NoEffect("false")

executeRightTypeImpl(fn, T0, T1, ResultType, block, col_left, garbage) ==
    IF col_left.shape = "Vector"
    THEN executeRightTypeImpl_Vector(fn, T0, T1, ResultType, block, col_left, garbage)
    ELSE executeRightTypeImpl_Const(fn, T0, T1, ResultType, block, col_left, garbage)

\* executeRightTypeDispatch taking the result scalar from the promotion of
\* the two storage scalars instead of from ResultDataType.
executeRightTypeDispatch_PromotedScalar(fn, L, R, ResultDataType, block, col_left, garbage) ==
    IF ResultDataType = InvalidType
    THEN NoEffect("false")
    ELSE executeRightTypeImpl(fn, FieldType(L), FieldType(R),
                              BinaryResultType(fn, FieldType(L), FieldType(R)),
                              block, col_left, garbage)

executeRightTypeDispatch(fn, L, R, ResultDataType, block, col_left, garbage) ==
    IF ResultDataType = InvalidType
    THEN NoEffect("false")
    ELSE executeRightTypeImpl(fn, FieldType(L), FieldType(R), FieldType(ResultDataType),
                              block, col_left, garbage)

executeRightType(fn, L, R, block, col_left, garbage) ==
    IF IsDateOrDateTime(L) \/ IsDateOrDateTime(R)
    THEN IF ~typeid_cast(R, block[2].type)
         THEN NoEffect("false")
         ELSE executeRightTypeDispatch(fn, L, R, DateBinaryOperationTraits(fn, L, R),
                                       block, col_left, garbage)
    ELSE executeRightTypeImpl(fn, FieldType(L), FieldType(R),
                              BinaryResultType(fn, FieldType(L), FieldType(R)),
                              block, col_left, garbage)

executeLeftTypeImpl(fn, L, shape, block, garbage) ==
    LET col_left == block[1].column IN
    IF col_left.shape = shape /\ col_left.scalar = FieldType(L)
    THEN OrThrow(FirstOf([i \in 1..Len(BinaryCandidates) |->
                             executeRightType(fn, L, BinaryCandidates[i], block,
                                              col_left, garbage)],
                         1, Len(BinaryCandidates)),
                 "ILLEGAL_COLUMN")
    ELSE NoEffect("false")

executeLeftTypeDispatch(fn, L, block, garbage) ==
    FirstOf([i \in 1..Len(ColumnKinds) |->
                executeLeftTypeImpl(fn, L, ColumnKinds[i], block, garbage)],
            1, Len(ColumnKinds))

executeLeftType(fn, L, block, garbage) ==
    IF IsDateOrDateTime(L) /\ ~typeid_cast(L, block[1].type)
    THEN NoEffect("false")
    ELSE executeLeftTypeDispatch(fn, L, block, garbage)

execute(fn, block, garbage) ==
    OrThrow(FirstOf([i \in 1..Len(BinaryCandidates) |->
                        executeLeftType(fn, BinaryCandidates[i], block, garbage)],
                    1, Len(BinaryCandidates)),
            "ILLEGAL_COLUMN")

(***************************************************************************)
(* FunctionUnaryArithmetic::execute                                        *)
(***************************************************************************)
executeType(fn, T0, block, garbage) ==
    LET col == block[1].column
        ResultType == UnaryResultType(fn, T0)
    IN  IF IsColumnVector(T0, col)
        THEN VectorEffect(ResultType,
                          UnaryOperationImpl_vector(fn, T0, col.data,
                                                    resize(ResultType, col.size, garbage)))
        ELSE IF IsColumnConst(T0, col)
        THEN Effect("true",
                    ColumnConst(ResultType, col.size,
                                UnaryOperationImpl_constant(fn, T0, col.data[1])),
                    {1})
        ELSE NoEffect("false")

unaryExecute(fn, block, garbage) ==
    OrThrow(FirstOf([i \in 1..Len(UnaryCandidates) |->
                        executeType(fn, UnaryCandidates[i], block, garbage)],
                    1, Len(UnaryCandidates)),
            "ILLEGAL_COLUMN")

(***************************************************************************)
(* The state: one call of a function on a block.                           *)
(*   fn        the function (plus, ..., bitNot)                            *)
(*   block     the block: the argument positions, then the result position *)
(*   type_res  what getReturnType returned or threw ("unset" before)       *)
(*   outcome   what execute returned ("true") or threw ("none" before)     *)
(*   written   the indices of the output buffer the kernel stored to       *)
(*   pc        "start", "typed" after getReturnType, "done" after execute  *)
(***************************************************************************)
VARIABLES fn, block, type_res, outcome, written, pc

vars == <<fn, block, type_res, outcome, written, pc>>

ResultPosition == Len(block)
ArgumentTypes == [i \in 1..(Len(block) - 1) |-> block[i].type]

ReturnTypeOutcome(r) == IF r.status = "true" THEN r.type_res ELSE r.status

GarbageSeeds == {0, 1}

GetReturnType ==
    /\ pc = "start"
    /\ fn \in BinaryFunctions
    /\ type_res' = ReturnTypeOutcome(getReturnType(fn, ArgumentTypes))
    /\ pc' = "typed"
    /\ UNCHANGED <<fn, block, outcome, written>>

UnaryGetReturnType ==
    /\ pc = "start"
    /\ fn \in UnaryFunctions
    /\ type_res' = ReturnTypeOutcome(unaryGetReturnType(fn, ArgumentTypes))
    /\ pc' = "typed"
    /\ UNCHANGED <<fn, block, outcome, written>>

Finish(r) ==
    /\ outcome' = r.status
    /\ block' = IF r.assigned THEN [block EXCEPT ![ResultPosition].column = r.column]
                ELSE block
    /\ written' = r.written
    /\ pc' = "done"
    /\ UNCHANGED <<fn, type_res>>

Execute ==
    /\ pc = "typed"
    /\ fn \in BinaryFunctions
    /\ \E garbage \in GarbageSeeds : Finish(execute(fn, block, garbage))

UnaryExecute ==
    /\ pc = "typed"
    /\ fn \in UnaryFunctions
    /\ \E garbage \in GarbageSeeds : Finish(unaryExecute(fn, block, garbage))

(***************************************************************************)
(* The dispatch specification: every function on every combination of      *)
(* declared types and column shapes, each column stored as the vector or   *)
(* the constant of its declared type's scalar; the left (or only) argument *)
(* is filled with 1, the right argument with 0 or with 1.                  *)
(***************************************************************************)
Shapes == {"Vector", "Const"}
FillValues == {0, 1}

FilledColumn(D, shape, n, f) ==
    LET T == FieldType(D)
        v == IF is_floating_point(T) THEN <<f, 1>> ELSE f
    IN  IF shape = "Vector" THEN ColumnVector(T, [i \in 1..n |-> v])
        ELSE ColumnConst(T, n, v)

Position(D, col) == [type |-> D, column |-> col]
EmptyPosition == [type |-> "None", column |-> NoColumn]

Init ==
    /\ type_res = "unset"
    /\ outcome = "none"
    /\ written = {}
    /\ pc = "start"
    /\ \E n \in 0..MaxRows :
       \/ /\ fn \in BinaryFunctions
          /\ \E L \in DataTypes, R \in DataTypes, sl \in Shapes, sr \in Shapes,
                fr \in FillValues :
                block = <<Position(L, FilledColumn(L, sl, n, 1)),
                          Position(R, FilledColumn(R, sr, n, fr)),
                          EmptyPosition>>
       \/ /\ fn \in UnaryFunctions
          /\ \E D \in DataTypes, sh \in Shapes :
                block = <<Position(D, FilledColumn(D, sh, n, 1)), EmptyPosition>>

Next == GetReturnType \/ Execute \/ UnaryGetReturnType \/ UnaryExecute

Spec == Init /\ [][Next]_vars

(***************************************************************************)
(* The division specification: intDiv and modulo on every pair of integer  *)
(* scalars, in the four shape combinations, on columns of 1..MaxLen rows.  *)
(* A vector holds one value everywhere except at one index p, where it     *)
(* holds another; p is the same for both arguments.                        *)
(***************************************************************************)
DivFunctions == {"intDiv", "modulo"}

InRange(T, v) == numeric_limits_min(T) <= v /\ v <= numeric_limits_max(T)

LeftValues(A) ==
    {v \in {0, 1, 0 - 1, 0 - 7, numeric_limits_min(A), numeric_limits_max(A)} :
        InRange(A, v)}
LeftBackground(A) == {1, numeric_limits_min(A)}

\* The right values include two that do not fit the left type.
RightValues(A, B) ==
    {v \in {0, 1, 0 - 1, 3, numeric_limits_min(B), numeric_limits_max(B),
            Pow2(Bits(A)), Pow2(Bits(A)) + 3} : InRange(B, v)}
RightBackground(B) == {v \in {1, 0 - 1} : InRange(B, v)}

PatternColumn(T, shape, n, p, v, w) ==
    IF shape = "Vector"
    THEN ColumnVector(T, [i \in 1..n |-> IF i = p THEN v ELSE w])
    ELSE ColumnConst(T, n, v)

InitDiv ==
    /\ type_res = "unset"
    /\ outcome = "none"
    /\ written = {}
    /\ pc = "start"
    /\ fn \in DivFunctions
    /\ \E A \in IntegerScalars, B \in IntegerScalars, sl \in Shapes, sr \in Shapes,
          n \in 1..MaxLen :
          \E p \in 1..n, a \in LeftValues(A), a0 \in LeftBackground(A),
             b \in RightValues(A, B), b0 \in RightBackground(B) :
             block = <<Position(DataTypeFromFieldType(A), PatternColumn(A, sl, n, p, a, a0)),
                       Position(DataTypeFromFieldType(B), PatternColumn(B, sr, n, p, b, b0)),
                       EmptyPosition>>

NextDiv == GetReturnType \/ Execute

SpecDiv == InitDiv /\ [][NextDiv]_vars

(***************************************************************************)
(* The addition specification: plus on every pair of integer scalars, on   *)
(* the columns of the division specification.                              *)
(***************************************************************************)
InitPlus ==
    /\ type_res = "unset"
    /\ outcome = "none"
    /\ written = {}
    /\ pc = "start"
    /\ fn = "plus"
    /\ \E A \in IntegerScalars, B \in IntegerScalars, sl \in Shapes, sr \in Shapes,
          n \in 1..MaxLen :
          \E p \in 1..n, a \in LeftValues(A), a0 \in LeftBackground(A),
             b \in RightValues(A, B), b0 \in RightBackground(B) :
             block = <<Position(DataTypeFromFieldType(A), PatternColumn(A, sl, n, p, a, a0)),
                       Position(DataTypeFromFieldType(B), PatternColumn(B, sr, n, p, b, b0)),
                       EmptyPosition>>

NextPlus == GetReturnType \/ Execute

SpecPlus == InitPlus /\ [][NextPlus]_vars

(***************************************************************************)
(* The divide-by-constant specification: intDiv of a vector by a constant  *)
(* on the pairs that have the override, on columns of 0..MaxSseRows rows   *)
(* (a 32-bit left type fills one SSE register with four elements).  The    *)
(* left column holds a different value at every index.                     *)
(***************************************************************************)
RampStarts(A) == {0, 5, numeric_limits_min(A)}
RampColumn(T, n, start) == ColumnVector(T, [i \in 1..n |-> start + 3 * (i - 1)])
SmallDivisors(B) == {v \in {0, 1, 2, 3, 0 - 1, 0 - 2} : InRange(B, v)}

InitSse ==
    /\ type_res = "unset"
    /\ outcome = "none"
    /\ written = {}
    /\ pc = "start"
    /\ fn = "intDiv"
    /\ \E A \in IntegerScalars, B \in IntegerScalars, n \in 0..MaxSseRows :
          /\ HasSpecialization(fn, A, B)
          /\ \E start \in RampStarts(A), b \in SmallDivisors(B) :
                block = <<Position(DataTypeFromFieldType(A), RampColumn(A, n, start)),
                          Position(DataTypeFromFieldType(B), ColumnConst(B, n, b)),
                          EmptyPosition>>

NextSse == GetReturnType \/ Execute

SpecSse == InitSse /\ [][NextSse]_vars

(***************************************************************************)
(* Properties of the dispatch specification.                               *)
(***************************************************************************)
IntegerDataTypes == {"UInt8", "UInt16", "UInt32", "UInt64", "Int8", "Int16", "Int32", "Int64"}
FloatDataTypes == {"Float32", "Float64"}
DateDataTypes == {"Date", "DateTime"}
StructuralErrors == {"ILLEGAL_COLUMN", "ILLEGAL_TYPE_OF_ARGUMENT"}
BitFunctions == {"bitAnd", "bitOr", "bitXor", "bitShiftLeft", "bitShiftRight", "bitNot"}

Arity == Len(block) - 1
IsBinaryCall == fn \in BinaryFunctions
ResultColumn == block[ResultPosition].column

\* C1: execute fails with a structural error (illegal argument type or
\* illegal column) exactly when getReturnType failed for the same declared
\* types; in particular it assigns no result column for declared types that
\* getReturnType rejected.
C1_ExecuteFailsExactlyWhenReturnTypeFails ==
    pc = "done" =>
        /\ (outcome \in StructuralErrors) <=> (type_res = "ILLEGAL_TYPE_OF_ARGUMENT")
        /\ type_res = "ILLEGAL_TYPE_OF_ARGUMENT" => ResultColumn = NoColumn

\* C2: when getReturnType published a type and execute succeeded, the column
\* at the result position holds elements of the storage scalar of the
\* published type.
C2_ResultScalarIsPublishedScalar ==
    (pc = "done" /\ type_res \in DataTypes /\ outcome = "true") =>
        ResultColumn.scalar = FieldType(type_res)

\* plus on a UInt8 column and a Date column: published Date, stored as UInt16
C2_Witness ==
    /\ pc = "done" /\ outcome = "true" /\ fn = "plus"
    /\ block[1].type = "UInt8" /\ block[2].type = "Date"
    /\ block[1].column.shape = "Const" /\ block[2].column.shape = "Vector"
    /\ type_res = "Date"
    /\ ResultColumn.scalar = "UInt16"

\* C7: with a Date or DateTime among the declared types, getReturnType gives
\* date + integer -> the date type, integer + date -> the date type,
\* date - integer -> the date type, date - the same date type -> Int32, and
\* throws the illegal-argument-type exception for every other combination.
C7_ReturnTypeIsDateTable ==
    (pc # "start" /\ IsBinaryCall
        /\ (block[1].type \in DateDataTypes \/ block[2].type \in DateDataTypes)) =>
        LET L == block[1].type
            R == block[2].type
        IN  type_res =
                CASE fn = "plus" /\ L \in DateDataTypes /\ R \in IntegerDataTypes -> L
                  [] fn = "plus" /\ L \in IntegerDataTypes /\ R \in DateDataTypes -> R
                  [] fn = "minus" /\ L \in DateDataTypes /\ R \in IntegerDataTypes -> L
                  [] fn = "minus" /\ L \in DateDataTypes /\ R = L -> "Int32"
                  [] OTHER -> "ILLEGAL_TYPE_OF_ARGUMENT"

\* DateTime - DateTime was typed Int32
C7_Witness ==
    /\ pc = "typed" /\ fn = "minus"
    /\ block[1].type = "DateTime" /\ block[2].type = "DateTime"
    /\ type_res = "Int32"

\* C9: after a successful execute on columns of N rows the result column is
\* a constant of length N when every argument column is a constant, and
\* otherwise a vector of N elements, every one of them stored by the kernel.
C9_ResultShapeAndLength ==
    (pc = "done" /\ outcome = "true") =>
        LET N == block[1].column.size
            AllConst == \A i \in 1..Arity : block[i].column.shape = "Const"
        IN  IF AllConst
            THEN ResultColumn.shape = "Const" /\ ResultColumn.size = N
            ELSE /\ ResultColumn.shape = "Vector"
                 /\ ResultColumn.size = N
                 /\ Len(ResultColumn.data) = N
                 /\ written = 1..N

\* C10: getReturnType throws the illegal-argument-type exception for a bit
\* operation (bitAnd, bitOr, bitXor, bitShiftLeft, bitShiftRight, bitNot)
\* with a Float32 or Float64 argument, and publishes no type.
C10_BitOperationOnFloatRejected ==
    (pc # "start" /\ fn \in BitFunctions
        /\ \E i \in 1..Arity : block[i].type \in FloatDataTypes) =>
        type_res = "ILLEGAL_TYPE_OF_ARGUMENT"

CommutativeFunctions == {"plus", "multiply", "bitAnd", "bitOr", "bitXor"}

\* C11: for a commutative function (plus, multiply, bitAnd, bitOr, bitXor) and
\* declared types A, B out of the candidate list, Date and DateTime included,
\* getReturnType on (A, B) and on (B, A) either both throw or both publish
\* the same type.
C11_ReturnTypeIsSymmetric ==
    (pc # "start" /\ fn \in CommutativeFunctions) =>
        type_res = ReturnTypeOutcome(getReturnType(fn, <<block[2].type, block[1].type>>))

\* an integer plus a DateTime was typed DateTime, as DateTime plus the integer
C11_Witness ==
    /\ pc = "typed" /\ fn = "plus"
    /\ block[1].type = "Int16" /\ block[2].type = "DateTime"
    /\ type_res = "DateTime"
    /\ getReturnType(fn, <<"DateTime", "Int16">>).status = "true"

DivisionErrors == {"DivisionByZero", "DivisionOverflow"}

\* C16: the result position is assigned only after the kernel has run to
\* completion: a call of execute that throws the division-by-zero, the
\* division-overflow or a structural exception leaves every position of the
\* block, the result position included, holding the column it held before,
\* and no call, successful or not, changes an argument column.
C16_BlockUnchangedOnFailure ==
    [][/\ (pc' = "done" /\ outcome' \in DivisionErrors \cup StructuralErrors) =>
              block' = block
       /\ \A i \in 1..Arity : block'[i] = block[i]]_vars

(***************************************************************************)
(* Properties of the division specification.                               *)
(***************************************************************************)
LeftColumn == block[1].column
RightColumn == block[2].column
LeftScalar == LeftColumn.scalar
RightScalar == RightColumn.scalar
Rows == LeftColumn.size
LeftAt(i) == IF LeftColumn.shape = "Const" THEN LeftColumn.data[1] ELSE LeftColumn.data[i]
RightAt(i) == IF RightColumn.shape = "Const" THEN RightColumn.data[1] ELSE RightColumn.data[i]
ResultAt(i) == IF ResultColumn.shape = "Const" THEN ResultColumn.data[1] ELSE ResultColumn.data[i]

\* the call took the divide-by-constant or modulo-by-constant override
OnFastPath ==
    /\ LeftColumn.shape = "Vector" /\ RightColumn.shape = "Const"
    /\ LeftScalar \in {"UInt32", "UInt64", "Int32", "Int64"}
    /\ is_signed(LeftScalar) = is_signed(RightScalar)

MinusOneEverywhere == Rows > 0 /\ \A i \in 1..Rows : RightAt(i) = 0 - 1
OneEverywhere == Rows > 0 /\ \A i \in 1..Rows : RightAt(i) = 1
ZeroIndices == {i \in 1..Rows : RightAt(i) = 0}

\* C3: intDiv of signed operands throws the division-overflow exception when
\* the right operand is -1 (a constant, or every element of a vector) and
\* some left element is the minimum of the left type, in every shape
\* combination, on the override as on the generic kernels.
C3_IntDivMinByMinusOneRaises ==
    (pc = "done" /\ fn = "intDiv" /\ is_signed(LeftScalar) /\ is_signed(RightScalar)
        /\ MinusOneEverywhere
        /\ \E i \in 1..Rows : LeftAt(i) = numeric_limits_min(LeftScalar)) =>
        outcome = "DivisionOverflow"

OverflowsAt(i) ==
    /\ is_signed(LeftScalar)
    /\ LeftAt(i) = numeric_limits_min(LeftScalar)
    /\ IF fn = "intDiv"
       THEN is_signed(RightScalar) /\ RightAt(i) = 0 - 1
       ELSE Wrap(LeftScalar, RightAt(i)) = 0 - 1

C5_FastPathParity ==
    (pc = "done" /\ OnFastPath /\ RightAt(1) # 0) =>
        LET Result == FieldType(type_res)
            generic == vector_constant(fn, LeftScalar, RightScalar, Result, LeftColumn.data,
                                       RightAt(1), resize(Result, Rows, 0), 0)
        IN  /\ outcome = KernelStatus(generic.status)
            /\ generic.status = "ok" => ResultColumn.data = generic.data

\* C6: on the override with the signed constant -1, intDiv stores -a[i] and
\* modulo stores 0 at every index i.
C6_FastPathMinusOne ==
    (pc = "done" /\ OnFastPath /\ is_signed(RightScalar) /\ RightAt(1) = 0 - 1) =>
        /\ outcome = "true"
        /\ \A i \in 1..Rows :
              ResultColumn.data[i] = IF fn = "intDiv"
                                     THEN Wrap(ResultColumn.scalar, 0 - LeftAt(i))
                                     ELSE 0

\* C8: intDiv(x, 1) = x, modulo(x, 1) = 0 and, for signed operands,
\* modulo(x, -1) = 0, for every x, the minimum of the left type included.
C8_UnitDivisorIdentities ==
    pc = "done" =>
        /\ (fn = "intDiv" /\ OneEverywhere) =>
              outcome = "true" /\ \A i \in 1..Rows : ResultAt(i) = LeftAt(i)
        /\ (fn = "modulo" /\ OneEverywhere) =>
              outcome = "true" /\ \A i \in 1..Rows : ResultAt(i) = 0
        /\ (fn = "modulo" /\ is_signed(LeftScalar) /\ is_signed(RightScalar)
               /\ MinusOneEverywhere) =>
              outcome = "true" /\ \A i \in 1..Rows : ResultAt(i) = 0

\* the pairs for which C13 says the override is selected
ClaimedOverride ==
    /\ SizeOf(LeftScalar) \in {4, 8}
    /\ is_signed(LeftScalar) = is_signed(RightScalar)
    /\ SizeOf(RightScalar) <= SizeOf(LeftScalar)

\* what the generic vector_constant kernel gives on the columns of the call
GenericVectorConstant ==
    vector_constant(fn, LeftScalar, RightScalar, FieldType(type_res), LeftColumn.data,
                    RightAt(1), resize(FieldType(type_res), Rows, 0), 0)

\* the call ended as the generic kernel result k ends
EndsAs(k) ==
    /\ outcome = KernelStatus(k.status)
    /\ k.status = "ok" => ResultColumn.data = k.data

\* C13: for a vector and a constant, the divide-by-constant or
\* modulo-by-constant override is selected exactly when the left type is 32
\* or 64 bits wide, the right type has the signedness of the left and is no
\* wider than the left; for every other pair, a right type wider than the
\* left included, the call ends as the generic vector_constant kernel does.
C13_OverrideSelection ==
    (pc = "done" /\ LeftColumn.shape = "Vector" /\ RightColumn.shape = "Const") =>
        /\ HasSpecialization(fn, LeftScalar, RightScalar) <=> ClaimedOverride
        /\ ~ClaimedOverride => EndsAs(GenericVectorConstant)

\* C14: on the override the division-by-zero and the division-overflow
\* conditions are checked once, before the loop and before anything is
\* stored: a zero constant, and for intDiv the signed constant -1 with the
\* minimum among the left elements, end the call with the exception and
\* nothing stored.  On the generic kernels the check runs per element: the
\* exception is thrown at the first offending index, after every earlier
\* element was stored and nothing from that index on.
C14_CheckedBeforeOrPerElement ==
    pc = "done" =>
        IF OnFastPath
        THEN /\ outcome \in DivisionErrors => written = {}
             /\ RightAt(1) = 0 => outcome = "DivisionByZero"
             /\ (fn = "intDiv" /\ RightAt(1) = 0 - 1
                    /\ \E i \in 1..Rows : LeftAt(i) = numeric_limits_min(LeftScalar)) =>
                   outcome = "DivisionOverflow"
        ELSE (outcome \in DivisionErrors /\ ResultColumn.shape = "Vector") =>
                \E k \in 1..Rows :
                    /\ written = 1..(k - 1)
                    /\ \A j \in 1..(k - 1) : RightAt(j) # 0 /\ ~OverflowsAt(j)

\* C17: intDiv and modulo throw the division-by-zero exception only when a
\* right value is itself 0, and the division-overflow exception only when
\* both types are signed and a right value is itself -1, whatever the widths
\* and signedness of the two types; and every element of a modulo result is
\* the remainder of the left value by the right value as it is.
C17_ErrorsFromRightValueItself ==
    pc = "done" =>
        /\ outcome = "DivisionByZero" => \E i \in 1..Rows : RightAt(i) = 0
        /\ outcome = "DivisionOverflow" =>
              /\ is_signed(LeftScalar) /\ is_signed(RightScalar)
              /\ \E i \in 1..Rows : RightAt(i) = 0 - 1
        /\ (fn = "modulo" /\ outcome = "true") =>
              \A i \in 1..Rows :
                  ResultAt(i) = Wrap(ResultColumn.scalar, TruncRem(LeftAt(i), RightAt(i)))

\* C18: on the overrides whose right type is wider than the left (UInt32 by
\* UInt64, Int32 by Int64, for intDiv and for modulo) the call ends, for every
\* non-zero constant, constants that do not fit the left type included, as
\* the generic vector_constant kernel ends on the same columns: the constant
\* is not narrowed to the left type before the divider is built.
C18_WideConstantParity ==
    (pc = "done" /\ OnFastPath /\ SizeOf(RightScalar) > SizeOf(LeftScalar)
        /\ RightAt(1) # 0) =>
        EndsAs(GenericVectorConstant)

(***************************************************************************)
(* Properties of the divide-by-constant specification.                     *)
(***************************************************************************)

\* C15: for every length N and every pair with the override, the SSE phase
\* and the scalar tail of the divide-by-constant kernel together store every
\* output index 0..N-1 and no other, and output element i holds the quotient
\* of input element i by the constant, in the result type.
C15_EveryQuotientAtItsIndex ==
    (pc = "done" /\ fn = "intDiv" /\ OnFastPath
        /\ RightAt(1) # 0 /\ RightAt(1) # 0 - 1) =>
        /\ outcome = "true"
        /\ Len(ResultColumn.data) = Rows
        /\ written = 1..Rows
        /\ \A i \in 1..Rows :
              ResultAt(i) = Wrap(ResultColumn.scalar, TruncDiv(LeftAt(i), RightAt(1)))

(***************************************************************************)
(* Properties of the addition specification.                               *)
(***************************************************************************)

\* C12: plus converts the left operand to the promoted result type before it
\* adds, so for integer operands of at most 32 bits every result element is
\* the exact mathematical sum of its operands, without wrap-around, held in
\* the promoted type.
C12_PlusIsExactUpTo32Bits ==
    (pc = "done" /\ fn = "plus" /\ SizeOf(LeftScalar) <= 4 /\ SizeOf(RightScalar) <= 4) =>
        /\ outcome = "true"
        /\ SizeOf(ResultColumn.scalar) = 2 * Max2(SizeOf(LeftScalar), SizeOf(RightScalar))
        /\ \A i \in 1..Rows : ResultAt(i) = LeftAt(i) + RightAt(i)

\* the minimum of Int32 plus the Int32 constant -1 is one below the minimum,
\* as Int64
C12_Witness ==
    /\ pc = "done" /\ fn = "plus" /\ outcome = "true"
    /\ LeftScalar = "Int32" /\ RightScalar = "Int32"
    /\ LeftColumn.shape = "Vector" /\ RightColumn.shape = "Const"
    /\ Rows = MaxLen
    /\ LeftAt(1) = numeric_limits_min("Int32") /\ RightAt(1) = 0 - 1
    /\ ResultColumn.scalar = "Int64"
    /\ ResultAt(1) = numeric_limits_min("Int32") - 1

====
